---- MODULE Spec2Model ----
(***************************************************************************)
(* Model of the Data-Interface reconciliation code:                        *)
(*   backend/system/fetch_wallet_data.py  normalize_trade_record,          *)
(*       signed_quantity_for_wallet, aggregate_delta_for_wallet            *)
(*   backend/system/fetch_fee_data.py     hex_to_int, compute_fee, main    *)
(*                                                                         *)
(* Python values are carried as records [k, s, n, lo]:                     *)
(*   k = "none"  None                                                      *)
(*   k = "str"   the string s                                              *)
(*   k = "num"   the number n (prices are counted in hundredths, so 0.4    *)
(*               is 40; the code only adds and averages prices)            *)
(*   k = "big"   the integer n * 1000 + lo, for values beyond 32 bits      *)
(* A raw record is a function from RawKeys to values; dict.get of a        *)
(* missing key and of a key holding None both give None.                   *)
(***************************************************************************)
EXTENDS Integers, Sequences, FiniteSets, TLC

VARIABLES
    \* signed_quantity_for_wallet applied to one normalized record
    rraw, rwallet, rn, rres, rpc,
    \* aggregate_delta_for_wallet: inputs, loop position, bucket dict
    trades, wallet, idx, bucket, order, out, apc,
    \* main: the prices fetched for the positions, and the marked positions
    price_map, marked,
    \* fetch_fee_data.main: rows, loop position, cache, output, totals, and the
    \* log of the lookups sent to the chain explorer with their answers
    merges, matic_price, fi, tx_cache, enriched, calls,
    total_matic, total_usdc, tx_count, fpc,
    \* get_trades_pages: arguments, loop state, requests sent, answers, result
    pcfg, prows, pcursor, poffset, ppages, preqs, presps, pret, ppc,
    \* fetch_merged_activity: arguments, loop state, requests, answers, result
    mcfg, mout, moffset, miter, mreqs, mresps, mret, mpc,
    \* normalize_trade_record applied to one raw record
    nraw, nrec, npc,
    \* day_windows_local_to_utc: arguments, loop cursor, result
    wfrom, wto, wcur, wout, wpc,
    \* filter_trades_by_windows of both files applied to the same input
    ttrades, twindows, tkept_wallet, tkept_trade, tpc

roleVars == <<rraw, rwallet, rn, rres, rpc>>
aggVars  == <<trades, wallet, idx, bucket, order, out, apc, price_map, marked>>
feeVars  == <<merges, matic_price, fi, tx_cache, enriched, calls,
             total_matic, total_usdc, tx_count, fpc>>
pageVars == <<pcfg, prows, pcursor, poffset, ppages, preqs, presps, pret, ppc>>
actVars  == <<mcfg, mout, moffset, miter, mreqs, mresps, mret, mpc>>
normVars == <<nraw, nrec, npc>>
winVars  == <<wfrom, wto, wcur, wout, wpc>>
filtVars == <<ttrades, twindows, tkept_wallet, tkept_trade, tpc>>
vars     == <<roleVars, aggVars, feeVars, pageVars, actVars, normVars, winVars,
              filtVars>>

----------------------------------------------------------------------------
(* Python values *)

None    == [k |-> "none", s |-> "", n |-> 0, lo |-> 0]
S(x)    == [k |-> "str", s |-> x, n |-> 0, lo |-> 0]
N(i)    == [k |-> "num", s |-> "", n |-> i, lo |-> 0]
Big(h, l) == [k |-> "big", s |-> "", n |-> h, lo |-> l]

\* bool(v)
Truthy(v) ==
    CASE v.k = "none" -> FALSE
      [] v.k = "str"  -> v.s # ""
      [] v.k = "num"  -> v.n # 0
      [] OTHER        -> v.n # 0 \/ v.lo # 0

\* a or b
Or(a, b) == IF Truthy(a) THEN a ELSE b

\* str.lower() on the strings that occur in the model
Lower(s) ==
    CASE s = "0xA"  -> "0xa"
      [] s = "0xB"  -> "0xb"
      [] s = "0xW"  -> "0xw"
      [] s = "BUY"  -> "buy"
      [] s = "SELL" -> "sell"
      [] s = "Yes"  -> "yes"
      [] s = "No"   -> "no"
      [] s = "O1"   -> "o1"
      [] s = "M1"   -> "m1"
      [] s = "M2"   -> "m2"
      [] OTHER      -> s

\* str.upper() on the strings that occur in the model
Upper(s) ==
    CASE s = "buy"  -> "BUY"
      [] s = "sell" -> "SELL"
      [] s = "yes"  -> "YES"
      [] s = "Yes"  -> "YES"
      [] s = "no"   -> "NO"
      [] s = "No"   -> "NO"
      [] s = "hold" -> "HOLD"
      [] s = "0xa"  -> "0XA"
      [] s = "0xb"  -> "0XB"
      [] OTHER      -> s

Digit(d) ==
    CASE d = 0 -> "0" [] d = 1 -> "1" [] d = 2 -> "2" [] d = 3 -> "3"
      [] d = 4 -> "4" [] d = 5 -> "5" [] d = 6 -> "6" [] d = 7 -> "7"
      [] d = 8 -> "8" [] OTHER -> "9"

RECURSIVE NatToStr(_)
NatToStr(i) == IF i < 10 THEN Digit(i) ELSE NatToStr(i \div 10) \o Digit(i % 10)

\* str(int)
IntToStr(i) == IF i < 0 THEN "-" \o NatToStr(0 - i) ELSE NatToStr(i)

\* str(v)
Str(v) ==
    CASE v.k = "str"  -> v.s
      [] v.k = "num"  -> IntToStr(v.n)
      [] v.k = "none" -> "None"
      [] OTHER        -> NatToStr(v.n) \o NatToStr(v.lo)

\* the decimal literals the parsers are tried on
MaxLiteral == 12
Literals == 0 .. MaxLiteral

IsDecimal(s) == \E i \in Literals : NatToStr(i) = s
DecimalOf(s) == CHOOSE i \in Literals : NatToStr(i) = s

\* float(v): a "raise" value stands for ValueError
Raise == [k |-> "raise", s |-> "", n |-> 0, lo |-> 0]
Float(v) ==
    CASE v.k = "num" -> v
      [] v.k = "big" -> v
      [] v.k = "str" -> IF IsDecimal(v.s) THEN N(DecimalOf(v.s)) ELSE Raise
      [] OTHER       -> Raise

----------------------------------------------------------------------------
(* fetch_wallet_data.py *)

RawKeys == {"conditionId", "market", "marketId", "market_id", "eventId",
            "title", "marketTitle", "marketName", "label",
            "outcome", "outcomeLabel", "side",
            "outcomeToken", "outcomeId", "outcome_id", "outcomeIndex",
            "price", "size", "quantity", "amount",
            "timestamp", "ts", "time",
            "proxyWallet", "wallet", "user",
            "maker", "makerAddress", "taker", "takerAddress",
            "buyer", "seller", "type", "action"}

\* the dict with the given items
Raw(f) == [key \in RawKeys |-> IF key \in DOMAIN f THEN f[key] ELSE None]

\* 2 * 10**10, in thousands
MsThresholdThousands == 20000000

\* int(ts) followed by the millisecond rescaling; None for "no timestamp"
extract_ts_seconds(t) ==
    LET ts == Or(Or(t["timestamp"], t["ts"]), t["time"])
    IN  CASE ts.k = "none" -> None
          [] ts.k = "num"  -> ts
          [] ts.k = "big"  ->
                IF ts.n > MsThresholdThousands
                   \/ (ts.n = MsThresholdThousands /\ ts.lo > 0)
                THEN N(ts.n) ELSE ts
          [] OTHER -> IF IsDecimal(ts.s) THEN N(DecimalOf(ts.s)) ELSE None

\* float(price) or float(size) raises ValueError
NormalizeRaises(t) ==
    LET size == Or(Or(t["size"], t["quantity"]), t["amount"])
    IN  \/ t["price"] # None /\ Float(t["price"]) = Raise
        \/ size # None /\ Float(size) = Raise

LowerStr(v) == IF Truthy(v) THEN S(Lower(Str(v))) ELSE None

normalize_trade_record(t) ==
    LET market_id == Or(Or(Or(Or(t["conditionId"], t["market"]), t["marketId"]),
                           t["market_id"]), t["eventId"])
        market_title == Or(Or(Or(t["title"], t["marketTitle"]), t["marketName"]),
                           t["label"])
        outcome_lbl == Or(Or(t["outcome"], t["outcomeLabel"]), t["side"])
        outcome_id == Or(Or(Or(Or(t["outcomeToken"], t["outcomeId"]), t["outcome_id"]),
                            t["outcomeIndex"]),
                         IF outcome_lbl.k = "str" THEN S(Upper(outcome_lbl.s)) ELSE None)
        price == t["price"]
        size == Or(Or(t["size"], t["quantity"]), t["amount"])
        proxy == Or(Or(t["proxyWallet"], t["wallet"]), t["user"])
        maker == Or(t["maker"], t["makerAddress"])
        taker == Or(t["taker"], t["takerAddress"])
        side == Or(Or(Or(t["side"], t["type"]), t["action"]), t["outcome"])
    IN  [market_id |-> market_id,
         market_title |-> market_title,
         outcome_id |-> outcome_id,
         outcome_label |-> outcome_lbl,
         price |-> IF price # None THEN Float(price) ELSE None,
         size |-> IF size # None THEN Float(size) ELSE None,
         ts |-> extract_ts_seconds(t),
         user |-> LowerStr(proxy),
         maker |-> LowerStr(maker),
         taker |-> LowerStr(taker),
         buyer |-> LowerStr(t["buyer"]),
         seller |-> LowerStr(t["seller"]),
         side |-> IF side.k = "str" THEN S(Lower(side.s)) ELSE side]

BuySides  == {S("buy"), S("yes")}
SellSides == {S("sell"), S("no")}

\* a maker/taker rule that tests the maker before the taker
MakerTakerRuleMakerFirst(n, wl) ==
    IF (Truthy(n.maker) \/ Truthy(n.taker)) /\ Truthy(n.side)
    THEN IF n.side \in BuySides /\ wl = n.maker THEN 0 - n.size.n
         ELSE IF n.side \in BuySides /\ wl = n.taker THEN n.size.n
         ELSE IF n.side \in SellSides /\ wl = n.maker THEN n.size.n
         ELSE IF n.side \in SellSides /\ wl = n.taker THEN 0 - n.size.n
         ELSE 0
    ELSE 0

\* the maker/taker rule and the final return 0.0
MakerTakerRule(n, wl) ==
    IF (Truthy(n.maker) \/ Truthy(n.taker)) /\ Truthy(n.side)
    THEN IF n.side \in BuySides /\ wl = n.taker THEN n.size.n
         ELSE IF n.side \in BuySides /\ wl = n.maker THEN 0 - n.size.n
         ELSE IF n.side \in SellSides /\ wl = n.taker THEN 0 - n.size.n
         ELSE IF n.side \in SellSides /\ wl = n.maker THEN n.size.n
         ELSE 0
    ELSE 0

\* the buyer/seller rule; a wallet that is neither falls through
BuyerSellerRule(n, wl) ==
    IF (Truthy(n.buyer) \/ Truthy(n.seller)) /\ wl = n.buyer THEN n.size.n
    ELSE IF (Truthy(n.buyer) \/ Truthy(n.seller)) /\ wl = n.seller THEN 0 - n.size.n
    ELSE MakerTakerRule(n, wl)

\* the proxy rule without its closing return 0.0
ProxyRuleFallsThrough(n, wl) ==
    IF Truthy(n.user) /\ wl = n.user /\ n.side \in BuySides THEN n.size.n
    ELSE IF Truthy(n.user) /\ wl = n.user /\ n.side \in SellSides THEN 0 - n.size.n
    ELSE BuyerSellerRule(n, wl)

\* the proxy rule: any record with a user is settled here
ProxyRule(n, wl) ==
    IF Truthy(n.user)
    THEN IF wl = n.user /\ n.side \in BuySides THEN n.size.n
         ELSE IF wl = n.user /\ n.side \in SellSides THEN 0 - n.size.n
         ELSE 0
    ELSE BuyerSellerRule(n, wl)

signed_quantity_for_wallet(n, w) ==
    IF ~Truthy(n.size) THEN 0 ELSE ProxyRule(n, S(Lower(w)))

----------------------------------------------------------------------------
(* Role resolution on its own: every raw record of RoleRaws, every wallet *)

RoleWallets == {"0xA", "0xb", "0xc"}
RoleSizes   == {None, N(0), N(5)}
RoleUsers   == {None, S("0xA"), S("0xb")}
RoleParties == {None, S("0xa"), S("0xb")}
RoleSides   == {None, S("BUY"), S("sell"), S("yes"), S("no"), S("hold")}

RoleRaws ==
    { Raw([size |-> sz, user |-> u, buyer |-> b, seller |-> sl,
           maker |-> m, taker |-> tk, side |-> sd]) :
        sz \in RoleSizes, u \in RoleUsers, b \in RoleParties, sl \in RoleParties,
        m \in RoleParties, tk \in RoleParties, sd \in RoleSides }

RoleIdle ==
    /\ rraw = Raw([size |-> None])
    /\ rwallet = ""
    /\ rn = None
    /\ rres = 0
    /\ rpc = "idle"

RoleInit ==
    /\ rraw \in RoleRaws
    /\ rwallet \in RoleWallets
    /\ rn = None
    /\ rres = 0
    /\ rpc = "raw"

RoleNormalize ==
    /\ rpc = "raw"
    /\ rn' = normalize_trade_record(rraw)
    /\ rpc' = "normalized"
    /\ UNCHANGED <<rraw, rwallet, rres>>
    /\ UNCHANGED <<aggVars, feeVars, pageVars, actVars, normVars, winVars, filtVars>>

RoleResolve ==
    /\ rpc = "normalized"
    /\ rres' = signed_quantity_for_wallet(rn, rwallet)
    /\ rpc' = "resolved"
    /\ UNCHANGED <<rraw, rwallet, rn>>
    /\ UNCHANGED <<aggVars, feeVars, pageVars, actVars, normVars, winVars, filtVars>>

----------------------------------------------------------------------------
(* aggregate_delta_for_wallet *)

\* a test that looks at the outcome only
IncludableOutcomeOnly(n) == Truthy(n.outcome_id)

\* the record is kept: it has a market_id and an outcome_id
Includable(n) == Truthy(n.market_id) /\ Truthy(n.outcome_id)

\* a key that leaves the outcome out
KeyOfMarketOnly(n) == <<Str(n.market_id), "">>

\* key = (str(n["market_id"]), str(n["outcome_id"]))
KeyOf(n) == <<Str(n.market_id), Str(n.outcome_id)>>

\* a loop test that keeps records whose delta is 0.0
ContributesIgnoringDelta(n, w) == Includable(n)

\* the two "continue" tests of the loop both fail: the record is folded
Contributes(n, w) == Includable(n) /\ signed_quantity_for_wallet(n, w) # 0

\* the bucket a key starts from
NewBucket(n) ==
    [market_id |-> Str(n.market_id),
     market_title |-> n.market_title,
     outcome_id |-> Str(n.outcome_id),
     outcome_label |-> n.outcome_label,
     net_shares |-> 0,
     fills |-> 0,
     avg_fill_price_sum |-> 0]

\* an accumulation that starts a fresh bucket for every record
AccumulateFresh(bk, n, dq) ==
    LET b == NewBucket(n)
    IN  [b EXCEPT !.net_shares = @ + dq,
                  !.avg_fill_price_sum = IF n.price # None THEN @ + n.price.n ELSE @,
                  !.fills = @ + 1]

\* an accumulation that counts a fill only when the record has a price
AccumulatePricedFills(bk, n, dq) ==
    LET key == KeyOf(n)
        b == IF key \in DOMAIN bk THEN bk[key] ELSE NewBucket(n)
    IN  [b EXCEPT !.net_shares = @ + dq,
                  !.avg_fill_price_sum = IF n.price # None THEN @ + n.price.n ELSE @,
                  !.fills = IF n.price # None THEN @ + 1 ELSE @]

\* an accumulation that keeps the latest price in place of the sum
AccumulateLastPrice(bk, n, dq) ==
    LET key == KeyOf(n)
        b == IF key \in DOMAIN bk THEN bk[key] ELSE NewBucket(n)
    IN  [b EXCEPT !.net_shares = @ + dq,
                  !.avg_fill_price_sum = IF n.price # None THEN n.price.n ELSE @,
                  !.fills = @ + 1]

\* get-or-create, then net_shares += dq, price sum += price, fills += 1
Accumulate(bk, n, dq) ==
    LET key == KeyOf(n)
        b == IF key \in DOMAIN bk THEN bk[key] ELSE NewBucket(n)
    IN  [b EXCEPT !.net_shares = @ + dq,
                  !.avg_fill_price_sum = IF n.price # None THEN @ + n.price.n ELSE @,
                  !.fills = @ + 1]

\* a store that deletes a bucket whose net_shares came back to 0
StoreUnlessFlat(bk, key, b) ==
    IF b.net_shares = 0 THEN [x \in DOMAIN bk \ {key} |-> bk[x]]
    ELSE [x \in DOMAIN bk \cup {key} |-> IF x = key THEN b ELSE bk[x]]

\* bucket[key] = b
Store(bk, key, b) == [x \in DOMAIN bk \cup {key} |-> IF x = key THEN b ELSE bk[x]]

Max(a, b) == IF a >= b THEN a ELSE b

\* a / b, kept exact as numerator and denominator
Frac(a, b) == [num |-> a, den |-> b]

\* avg_fill_price = avg_fill_price_sum / max(fills, 1); the sum is deleted
Finalize(rec) ==
    [market_id |-> rec.market_id,
     market_title |-> rec.market_title,
     outcome_id |-> rec.outcome_id,
     outcome_label |-> rec.outcome_label,
     net_shares |-> rec.net_shares,
     fills |-> rec.fills,
     avg_fill_price |-> Frac(rec.avg_fill_price_sum, Max(rec.fills, 1))]

\* the loop over the trades, from a bucket dict and its insertion order
RECURSIVE FoldTrades(_, _, _)
FoldTrades(ts, w, acc) ==
    IF ts = <<>> THEN acc
    ELSE LET n == normalize_trade_record(Head(ts))
             dq == signed_quantity_for_wallet(n, w)
         IN  FoldTrades(Tail(ts), w,
                 IF Contributes(n, w)
                 THEN [bucket |-> Store(acc.bucket, KeyOf(n), Accumulate(acc.bucket, n, dq)),
                       order |-> IF KeyOf(n) \in DOMAIN acc.bucket THEN acc.order
                                 ELSE Append(acc.order, KeyOf(n))]
                 ELSE acc)

\* the result of a call in which no conversion raises
aggregate_delta_for_wallet(ts, w) ==
    LET acc == FoldTrades(ts, w, [bucket |-> [x \in {} |-> 0], order |-> <<>>])
    IN  [i \in 1 .. Len(acc.order) |-> Finalize(acc.bucket[acc.order[i]])]

\* fetch_market_prices and mark_to_market

\* math.nan
NaN == [k |-> "nan", s |-> "", n |-> 0, lo |-> 0]

\* a dict without keys
NoPrices == [x \in {} |-> 0]

\* the prices of the outcomes of one market, in hundredths
OutcomePrices ==
    { NoPrices,
      [o \in {"O1"} |-> 45],
      [o \in {"O1", "O2", "1"} |-> IF o = "O1" THEN 45 ELSE IF o = "O2" THEN 0 ELSE 20] }

\* the results fetch_market_prices can give for the markets of the positions:
\* a market whose request is not answered with 200 has no entry
PriceMaps(rows) ==
    LET mids == { rows[i].market_id : i \in 1 .. Len(rows) }
    IN  UNION { [ms -> OutcomePrices] : ms \in SUBSET mids }

\* a marking that prices a missing outcome at 0
mark_to_market_zero(rows, pm) ==
    [i \in 1 .. Len(rows) |->
        LET r == rows[i]
            cp == IF r.market_id \in DOMAIN pm /\ r.outcome_id \in DOMAIN pm[r.market_id]
                  THEN N(pm[r.market_id][r.outcome_id]) ELSE N(0)
        IN  [market_id |-> r.market_id, market_title |-> r.market_title,
             outcome_id |-> r.outcome_id, outcome_label |-> r.outcome_label,
             net_shares |-> r.net_shares, fills |-> r.fills,
             avg_fill_price |-> r.avg_fill_price,
             current_price |-> cp, mark_value |-> N(r.net_shares * cp.n)]]

\* {**r, "current_price": cp, "mark_value": mv} for every row
mark_to_market(rows, pm) ==
    [i \in 1 .. Len(rows) |->
        LET r == rows[i]
            cp == IF r.market_id \in DOMAIN pm /\ r.outcome_id \in DOMAIN pm[r.market_id]
                  THEN N(pm[r.market_id][r.outcome_id]) ELSE NaN
            mv == IF cp # NaN THEN N(r.net_shares * cp.n) ELSE NaN
        IN  [market_id |-> r.market_id, market_title |-> r.market_title,
             outcome_id |-> r.outcome_id, outcome_label |-> r.outcome_label,
             net_shares |-> r.net_shares, fills |-> r.fills,
             avg_fill_price |-> r.avg_fill_price,
             current_price |-> cp, mark_value |-> mv]]

MaxTrades == 3

AggWallets == {"0xW", "0xb"}

Fill(m, o, u, sd, sz, p) ==
    Raw([conditionId |-> m, outcomeId |-> o, user |-> u, side |-> sd,
         size |-> sz, price |-> p])

T1 == Fill(S("M1"), S("O1"), S("0xw"), S("buy"), N(10), N(40))
T2 == Fill(S("M1"), S("O1"), S("0xw"), S("sell"), N(4), N(50))

TradePool ==
    { T1, T2,
      \* closes T1, carries no price
      Fill(S("M1"), S("O1"), S("0xW"), S("SELL"), N(10), None),
      \* another outcome of the same market
      Fill(S("M1"), S("O2"), S("0xw"), S("yes"), S("3"), S("7")),
      \* another wallet's fill
      Fill(S("M1"), S("O1"), S("0xb"), S("buy"), N(5), N(60)),
      \* no size
      Fill(S("M1"), S("O1"), S("0xw"), S("buy"), N(0), N(60)),
      \* no market
      Fill(None, S("O1"), S("0xw"), S("buy"), N(5), N(60)),
      \* buyer/seller payload
      Raw([market |-> S("M2"), outcomeToken |-> S("O1"), buyer |-> S("0xW"),
           seller |-> S("0xb"), quantity |-> N(3), price |-> N(20)]),
      \* numeric and textual ids of one bucket
      Raw([eventId |-> N(7), outcomeIndex |-> N(1), user |-> S("0xw"),
           side |-> S("buy"), size |-> N(2), price |-> N(10)]),
      Raw([market |-> S("7"), outcomeId |-> S("1"), user |-> S("0xw"),
           side |-> S("sell"), size |-> N(2), price |-> N(30)]),
      \* a price that float() rejects
      Fill(S("M1"), S("O1"), S("0xw"), S("buy"), N(1), S("abc")) }

RECURSIVE SeqsUpTo(_, _)
SeqsUpTo(pool, len) ==
    IF len = 0 THEN { <<>> }
    ELSE LET shorter == SeqsUpTo(pool, len - 1)
         IN  shorter \cup { Append(q, x) : q \in { r \in shorter : Len(r) = len - 1 }, x \in pool }

NoBuckets == [x \in {} |-> 0]

AggIdle ==
    /\ trades = <<>>
    /\ wallet = ""
    /\ idx = 0
    /\ bucket = NoBuckets
    /\ order = <<>>
    /\ out = <<>>
    /\ price_map = NoPrices
    /\ marked = <<>>
    /\ apc = "idle"

AggInit ==
    /\ trades \in SeqsUpTo(TradePool, MaxTrades)
    /\ wallet \in AggWallets
    /\ idx = 1
    /\ bucket = NoBuckets
    /\ order = <<>>
    /\ out = <<>>
    /\ price_map = NoPrices
    /\ marked = <<>>
    /\ apc = "fold"

\* normalize_trade_record raises: the call ends without a result
AggRaise ==
    /\ apc = "fold" /\ idx <= Len(trades)
    /\ NormalizeRaises(trades[idx])
    /\ apc' = "raised"
    /\ UNCHANGED <<trades, wallet, idx, bucket, order, out, price_map, marked>>
    /\ UNCHANGED <<roleVars, feeVars, pageVars, actVars, normVars, winVars, filtVars>>

\* one of the two "continue" statements
AggSkip ==
    /\ apc = "fold" /\ idx <= Len(trades)
    /\ ~NormalizeRaises(trades[idx])
    /\ ~Contributes(normalize_trade_record(trades[idx]), wallet)
    /\ idx' = idx + 1
    /\ UNCHANGED <<trades, wallet, bucket, order, out, apc, price_map, marked>>
    /\ UNCHANGED <<roleVars, feeVars, pageVars, actVars, normVars, winVars, filtVars>>

\* the record is folded into its bucket
AggFold ==
    /\ apc = "fold" /\ idx <= Len(trades)
    /\ ~NormalizeRaises(trades[idx])
    /\ LET n == normalize_trade_record(trades[idx])
           dq == signed_quantity_for_wallet(n, wallet)
       IN  /\ Contributes(n, wallet)
           /\ bucket' = Store(bucket, KeyOf(n), Accumulate(bucket, n, dq))
           /\ order' = IF KeyOf(n) \in DOMAIN bucket THEN order ELSE Append(order, KeyOf(n))
    /\ idx' = idx + 1
    /\ UNCHANGED <<trades, wallet, out, apc, price_map, marked>>
    /\ UNCHANGED <<roleVars, feeVars, pageVars, actVars, normVars, winVars, filtVars>>

\* the closing loop over bucket.items()
AggFinalize ==
    /\ apc = "fold" /\ idx > Len(trades)
    /\ out' = [i \in 1 .. Len(order) |-> Finalize(bucket[order[i]])]
    /\ apc' = "done"
    /\ UNCHANGED <<trades, wallet, idx, bucket, order, price_map, marked>>
    /\ UNCHANGED <<roleVars, feeVars, pageVars, actVars, normVars, winVars, filtVars>>

\* price_map = fetch_market_prices(market_ids), for a non-empty result
AggPrices ==
    /\ apc = "done" /\ out # <<>>
    /\ price_map' \in PriceMaps(out)
    /\ apc' = "priced"
    /\ UNCHANGED <<trades, wallet, idx, bucket, order, out, marked>>
    /\ UNCHANGED <<roleVars, feeVars, pageVars, actVars, normVars, winVars, filtVars>>

\* positions = mark_to_market(positions, price_map)
AggMark ==
    /\ apc = "priced"
    /\ marked' = mark_to_market(out, price_map)
    /\ apc' = "marked"
    /\ UNCHANGED <<trades, wallet, idx, bucket, order, out, price_map>>
    /\ UNCHANGED <<roleVars, feeVars, pageVars, actVars, normVars, winVars, filtVars>>

----------------------------------------------------------------------------
(* fetch_fee_data.py *)

HexDigit(d) ==
    CASE d = 10 -> "a" [] d = 11 -> "b" [] d = 12 -> "c" [] d = 13 -> "d"
      [] d = 14 -> "e" [] d = 15 -> "f" [] OTHER -> Digit(d)

RECURSIVE NatToHex(_)
NatToHex(i) == IF i < 16 THEN HexDigit(i) ELSE NatToHex(i \div 16) \o HexDigit(i % 16)

\* s.startswith(("0x", "0X")) and the rest is a hexadecimal literal
IsHex(s) == \E i \in Literals : s = "0x" \o NatToHex(i) \/ s = "0X" \o NatToHex(i)
HexOf(s) == CHOOSE i \in Literals : s = "0x" \o NatToHex(i) \/ s = "0X" \o NatToHex(i)

\* int(s, 16) for a 0x string, int(s) otherwise, None when either raises
hex_to_int(v) ==
    IF v = None THEN None
    ELSE LET s == Str(v)
         IN  IF IsHex(s) THEN N(HexOf(s))
             ELSE IF IsDecimal(s) THEN N(DecimalOf(s))
             ELSE None

\* wei / 1e18: the number n * 10^-18
Matic(w) == [k |-> "matic", s |-> "", n |-> w, lo |-> 0]

wei_to_matic(wei) == IF wei # None THEN Matic(wei.n) ELSE None

safe_float(x) ==
    IF x = None \/ x = S("") THEN None
    ELSE IF x.k = "str" THEN (IF IsDecimal(x.s) THEN N(DecimalOf(x.s)) ELSE None)
    ELSE x

\* answers of the chain explorer: a dict, no result, or a transport error
NoResult == [k |-> "none", gasUsed |-> None, effectiveGasPrice |-> None,
             gasPrice |-> None, msg |-> ""]
Failure(m) == [k |-> "raise", gasUsed |-> None, effectiveGasPrice |-> None,
               gasPrice |-> None, msg |-> m]
Receipt(g, e) == [k |-> "dict", gasUsed |-> g, effectiveGasPrice |-> e,
                  gasPrice |-> None, msg |-> ""]
TxData(p) == [k |-> "dict", gasUsed |-> None, effectiveGasPrice |-> None,
              gasPrice |-> p, msg |-> ""]

\* compute_fee reaches get_tx_data: used_price is None after the receipt
TxLookupNeeded(receipt) ==
    receipt.k = "dict" /\ hex_to_int(receipt.effectiveGasPrice) = None

\* gas_price_legacy
LegacyPrice(receipt, tx) ==
    IF TxLookupNeeded(receipt) /\ tx.k = "dict" THEN hex_to_int(tx.gasPrice) ELSE None

\* used_price
UsedPrice(receipt, tx) ==
    IF TxLookupNeeded(receipt) THEN LegacyPrice(receipt, tx)
    ELSE hex_to_int(receipt.effectiveGasPrice)

\* note
NoteOf(receipt, tx) ==
    IF TxLookupNeeded(receipt)
    THEN (IF Truthy(LegacyPrice(receipt, tx)) THEN "fallback_gasPrice" ELSE "no_price_found")
    ELSE "effectiveGasPrice"

FeeRecord(g, e, p, w, m, nt) ==
    [gasUsed |-> g, effectiveGasPrice |-> e, gasPrice |-> p,
     feeWei |-> w, feeMATIC |-> m, note |-> nt]

\* a fee computed from the price alone when gasUsed does not decode
compute_fee_gasless(receipt, tx) ==
    IF receipt.k # "dict"
    THEN FeeRecord(None, None, None, None, None, "no_receipt")
    ELSE LET gas_used == hex_to_int(receipt.gasUsed)
             eff_price == hex_to_int(receipt.effectiveGasPrice)
             used_price == UsedPrice(receipt, tx)
             gas_price_legacy == LegacyPrice(receipt, tx)
             note == NoteOf(receipt, tx)
         IN  IF used_price = None
             THEN FeeRecord(gas_used, eff_price, gas_price_legacy, None, None, note)
             ELSE LET fee_wei == N((IF gas_used = None THEN 1 ELSE gas_used.n) * used_price.n)
                  IN  FeeRecord(gas_used, eff_price,
                                IF eff_price = None THEN gas_price_legacy ELSE eff_price,
                                fee_wei, wei_to_matic(fee_wei), note)

\* compute_fee once both lookups have answered without raising
compute_fee(receipt, tx) ==
    IF receipt.k # "dict"
    THEN FeeRecord(None, None, None, None, None, "no_receipt")
    ELSE LET gas_used == hex_to_int(receipt.gasUsed)
             eff_price == hex_to_int(receipt.effectiveGasPrice)
             used_price == UsedPrice(receipt, tx)
             gas_price_legacy == LegacyPrice(receipt, tx)
             note == NoteOf(receipt, tx)
         IN  IF gas_used = None \/ used_price = None
             THEN FeeRecord(gas_used, eff_price, gas_price_legacy, None, None, note)
             ELSE LET fee_wei == N(gas_used.n * used_price.n)
                  IN  FeeRecord(gas_used, eff_price,
                                IF eff_price = None THEN gas_price_legacy ELSE eff_price,
                                fee_wei, wei_to_matic(fee_wei), note)

\* a lookup of compute_fee raises
ComputeFeeRaises(receipt, tx) ==
    receipt.k = "raise" \/ (TxLookupNeeded(receipt) /\ tx.k = "raise")

RaisedMessage(receipt, tx) == IF receipt.k = "raise" THEN receipt.msg ELSE tx.msg

\* an except clause that keeps the bare message as the note
ErrorFeeBare(m) == FeeRecord(None, None, None, None, None, m)

\* fee = {"feeMATIC": None, "note": f"error:{e}"}
ErrorFee(m) == FeeRecord(None, None, None, None, None, "error:" \o m)

\* try: fee = compute_fee(tx)  except Exception as e: ...
ResolveFee(receipt, tx) ==
    IF ComputeFeeRaises(receipt, tx) THEN ErrorFee(RaisedMessage(receipt, tx))
    ELSE compute_fee(receipt, tx)

\* a cache that forgets what it is given
CacheNothing(cache, tx, fee) == cache

\* tx_cache[tx] = fee
CacheStore(cache, tx, fee) ==
    [x \in DOMAIN cache \cup {tx} |-> IF x = tx THEN fee ELSE cache[x]]

RowKeys == {"transactionHash", "txHash", "transaction_hash", "usdcSize", "title",
            "fee_note"}
Row(f) == [key \in RowKeys |-> IF key \in DOMAIN f THEN f[key] ELSE None]

\* tx = m.get("transactionHash") or m.get("txHash") or m.get("transaction_hash")
TxOf(m) == Or(Or(m["transactionHash"], m["txHash"]), m["transaction_hash"])

\* fee_matic * matic_price: the number n * 10^-20
Usdc(fee_matic, price) ==
    IF fee_matic # None THEN [k |-> "usdc", s |-> "", n |-> fee_matic.n * price, lo |-> 0]
    ELSE None

\* usdc_size - fee_usdc, kept as the two terms
NetAfter(usdc_size, fee_usdc) ==
    IF Truthy(usdc_size) /\ Truthy(fee_usdc)
    THEN [k |-> "net", s |-> "", n |-> usdc_size.n, lo |-> fee_usdc.n]
    ELSE None

\* an enriched row that loses the fields of the activity row
EnrichedBare(m, fm, fu, net, mp, nt) ==
    [row |-> [key \in RowKeys |-> None],
     feeMATIC |-> fm, feeUSDC |-> fu, netUSDC_after_fee |-> net,
     maticPriceUSDC |-> mp, fee_note |-> nt]

\* dict(m) after row.update(...): row holds the keys of m as they read after
\* the update, which overwrites a fee_note the activity row came with
Enriched(m, fm, fu, net, mp, nt) ==
    [row |-> [key \in RowKeys |->
                 IF key = "fee_note" /\ m[key] # None THEN S(nt) ELSE m[key]],
     feeMATIC |-> fm, feeUSDC |-> fu, netUSDC_after_fee |-> net,
     maticPriceUSDC |-> mp, fee_note |-> nt]

\* the row built from a fee record
EnrichedFrom(m, fee, price) ==
    LET fee_matic == safe_float(fee.feeMATIC)
        fee_usdc == Usdc(fee_matic, price)
    IN  Enriched(m, fee_matic, fee_usdc,
                 NetAfter(safe_float(m["usdcSize"]), fee_usdc), N(price), fee.note)

MaxRows == 3

\* FALLBACK_PRICE, in hundredths
FALLBACK_PRICE == 50
MaticPrices == {FALLBACK_PRICE, 80}

RowPool ==
    { Row([transactionHash |-> S("0xh1"), usdcSize |-> S("10")]),
      Row([txHash |-> S("0xh1"), usdcSize |-> N(4)]),
      Row([transactionHash |-> S(""), transaction_hash |-> S("0xh2"), usdcSize |-> S("n/a")]),
      Row([title |-> S("merge"), usdcSize |-> S("10"), fee_note |-> S("old")]) }

ReceiptAnswers ==
    { NoResult, Failure("timeout") }
      \cup { Receipt(g, e) : g \in {S("0x5"), S("zz")},
                             e \in {None, S("0x3"), S("0x0")} }

TxAnswers ==
    { NoResult, Failure("reset") }
      \cup { TxData(p) : p \in {S("0x5"), S("0x0"), S("7")} }

NoCache == [x \in {} |-> 0]

FeeIdle ==
    /\ merges = <<>>
    /\ matic_price = 0
    /\ fi = 0
    /\ tx_cache = NoCache
    /\ enriched = <<>>
    /\ calls = <<>>
    /\ total_matic = 0
    /\ total_usdc = 0
    /\ tx_count = 0
    /\ fpc = "idle"

FeeInit ==
    /\ merges \in SeqsUpTo(RowPool, MaxRows)
    /\ matic_price \in MaticPrices
    /\ fi = 1
    /\ tx_cache = NoCache
    /\ enriched = <<>>
    /\ calls = <<>>
    /\ total_matic = 0
    /\ total_usdc = 0
    /\ tx_count = 0
    /\ fpc = "loop"

\* the totals after a row enriched with fee_matic
Totals(row) ==
    /\ total_matic' = IF row.feeMATIC # None THEN total_matic + row.feeMATIC.n ELSE total_matic
    /\ total_usdc' = IF row.feeMATIC # None THEN total_usdc + row.feeUSDC.n ELSE total_usdc
    /\ tx_count' = IF row.feeMATIC # None THEN tx_count + 1 ELSE tx_count

\* a row without a transaction hash
FeeNoHash ==
    /\ fpc = "loop" /\ fi <= Len(merges)
    /\ ~Truthy(TxOf(merges[fi]))
    /\ enriched' = Append(enriched, Enriched(merges[fi], None, None, None, None, "no_txhash"))
    /\ fi' = fi + 1
    /\ UNCHANGED <<merges, matic_price, tx_cache, calls, total_matic, total_usdc, tx_count, fpc>>
    /\ UNCHANGED <<roleVars, aggVars, pageVars, actVars, normVars, winVars, filtVars>>

\* a row whose hash is in tx_cache
FeeCached ==
    /\ fpc = "loop" /\ fi <= Len(merges)
    /\ Truthy(TxOf(merges[fi]))
    /\ TxOf(merges[fi]) \in DOMAIN tx_cache
    /\ LET row == EnrichedFrom(merges[fi], tx_cache[TxOf(merges[fi])], matic_price)
       IN  /\ enriched' = Append(enriched, row)
           /\ Totals(row)
    /\ fi' = fi + 1
    /\ UNCHANGED <<merges, matic_price, tx_cache, calls, fpc>>
    /\ UNCHANGED <<roleVars, aggVars, pageVars, actVars, normVars, winVars, filtVars>>

\* both lookups sent for every hash
LookupsOfBoth(tx, receipt, txa) ==
    << [fn |-> "get_tx_receipt", txhash |-> tx, answer |-> receipt],
       [fn |-> "get_tx_data", txhash |-> tx, answer |-> txa] >>

\* the lookups compute_fee(tx) sends, in order, with their answers
LookupsOf(tx, receipt, txa) ==
    IF TxLookupNeeded(receipt)
    THEN << [fn |-> "get_tx_receipt", txhash |-> tx, answer |-> receipt],
            [fn |-> "get_tx_data", txhash |-> tx, answer |-> txa] >>
    ELSE << [fn |-> "get_tx_receipt", txhash |-> tx, answer |-> receipt] >>

\* a row whose hash is resolved now
FeeCompute ==
    /\ fpc = "loop" /\ fi <= Len(merges)
    /\ Truthy(TxOf(merges[fi]))
    /\ TxOf(merges[fi]) \notin DOMAIN tx_cache
    /\ \E receipt \in ReceiptAnswers, txa \in TxAnswers :
          LET tx == TxOf(merges[fi])
              fee == ResolveFee(receipt, txa)
              row == EnrichedFrom(merges[fi], fee, matic_price)
          IN  /\ calls' = calls \o LookupsOf(tx, receipt, txa)
              /\ tx_cache' = CacheStore(tx_cache, tx, fee)
              /\ enriched' = Append(enriched, row)
              /\ Totals(row)
    /\ fi' = fi + 1
    /\ UNCHANGED <<merges, matic_price, fpc>>
    /\ UNCHANGED <<roleVars, aggVars, pageVars, actVars, normVars, winVars, filtVars>>

\* write_csv(enriched, CSV_PATH)
FeeDone ==
    /\ fpc = "loop" /\ fi > Len(merges)
    /\ fpc' = "done"
    /\ UNCHANGED <<merges, matic_price, fi, tx_cache, enriched, calls,
                   total_matic, total_usdc, tx_count>>
    /\ UNCHANGED <<roleVars, aggVars, pageVars, actVars, normVars, winVars, filtVars>>

----------------------------------------------------------------------------
(* get_trades_pages *)

True   == [k |-> "bool", s |-> "", n |-> 1, lo |-> 0]
False  == [k |-> "bool", s |-> "", n |-> 0, lo |-> 0]
\* a key the dict does not hold
Absent == [k |-> "absent", s |-> "", n |-> 0, lo |-> 0]

\* a filter that always asks for maker-only
RoleParamsMakerAlways(role) ==
    IF role = "taker" THEN [takerOnly |-> True, makerOnly |-> True]
    ELSE [takerOnly |-> False, makerOnly |-> True]

\* takerOnly and makerOnly of the request
RoleParams(role) ==
    IF role = "taker" THEN [takerOnly |-> True, makerOnly |-> Absent]
    ELSE [takerOnly |-> False,
          makerOnly |-> IF role = "maker" THEN True ELSE Absent]

\* params of one request
PageParams(cfg, cursor, offset) ==
    [limit |-> N(cfg.limit),
     market |-> IF Truthy(cfg.cond_id) THEN cfg.cond_id ELSE Absent,
     eventId |-> IF ~Truthy(cfg.cond_id) /\ Truthy(cfg.event_id) THEN cfg.event_id ELSE Absent,
     user |-> IF Truthy(cfg.user_wallet) THEN S(Lower(cfg.user_wallet.s)) ELSE Absent,
     takerOnly |-> RoleParams(cfg.role).takerOnly,
     makerOnly |-> RoleParams(cfg.role).makerOnly,
     cursor |-> IF cursor # None THEN cursor ELSE Absent,
     offset |-> IF cursor # None THEN Absent ELSE N(offset)]

\* answers of the trade feed; results and data are row counts, -1 for a
\* missing key
DictPage(res, dat, nc, nx, cu) ==
    [kind |-> "dict", size |-> 0, results |-> res, data |-> dat,
     nextCursor |-> nc, next |-> nx, cursor |-> cu, status |-> 200]
ListPage(sz) ==
    [kind |-> "list", size |-> sz, results |-> -1, data |-> -1,
     nextCursor |-> None, next |-> None, cursor |-> None, status |-> 200]
OtherPage ==
    [kind |-> "other", size |-> 0, results |-> -1, data |-> -1,
     nextCursor |-> None, next |-> None, cursor |-> None, status |-> 200]
HttpError(st) ==
    [kind |-> "http_error", size |-> 0, results |-> -1, data |-> -1,
     nextCursor |-> None, next |-> None, cursor |-> None, status |-> st]
TransportError ==
    [kind |-> "transport_error", size |-> 0, results |-> -1, data |-> -1,
     nextCursor |-> None, next |-> None, cursor |-> None, status |-> 0]

\* batch = data.get("results") or data.get("data") or []
BatchSize(d) == IF d.results > 0 THEN d.results ELSE IF d.data > 0 THEN d.data ELSE 0

\* data.get("nextCursor") or data.get("next") or data.get("cursor")
NextCursor(d) == Or(Or(d.nextCursor, d.next), d.cursor)

\* the rows of a page: row i of the page answered to request number p
PageRows(p, sz) == [i \in 1 .. sz |-> <<p, i>>]

MaxPagesBound == 3
PageLimit == 2

\* an offset that advances by one row per page
NextOffsetByOne(offset, limit) == offset + 1

\* offset += limit
NextOffset(offset, limit) == offset + limit

\* a page counter that stops one page late
PagesReachedLate(pages, max_pages) == pages > max_pages

\* if pages >= max_pages: break
PagesReached(pages, max_pages) == pages >= max_pages

PageConfigs ==
    { [cond_id |-> c[1], event_id |-> c[2], role |-> c[3], user_wallet |-> c[4],
       limit |-> PageLimit, max_pages |-> m] :
        c \in { <<S("M1"), None, "maker", S("0xW")>>,
                <<None, S("E1"), "taker", None>>,
                <<S(""), None, "all", S("0xW")>>,
                <<None, S("E1"), "MAKER", None>>,
                <<S("M1"), S("E1"), "maker", None>> },
        m \in 1 .. MaxPagesBound }

PageAnswers ==
    { DictPage(PageLimit, -1, S("c1"), None, None),
      DictPage(PageLimit, -1, None, None, None),
      DictPage(1, -1, S("c1"), None, None),
      DictPage(0, PageLimit, S(""), S("c2"), None),
      DictPage(-1, -1, None, None, S("c1")) }
      \cup { ListPage(sz) : sz \in 0 .. PageLimit + 1 }
      \cup { OtherPage, HttpError(500), TransportError }

PageIdle ==
    /\ pcfg = [cond_id |-> None, event_id |-> None, role |-> "", user_wallet |-> None,
               limit |-> 0, max_pages |-> 0]
    /\ prows = <<>>
    /\ pcursor = None
    /\ poffset = 0
    /\ ppages = 0
    /\ preqs = <<>>
    /\ presps = <<>>
    /\ pret = <<>>
    /\ ppc = "idle"

PageInit ==
    /\ pcfg \in PageConfigs
    /\ prows = <<>>
    /\ pcursor = None
    /\ poffset = 0
    /\ ppages = 0
    /\ preqs = <<>>
    /\ presps = <<>>
    /\ pret = <<>>
    /\ ppc = "loop"

BadArgs == Truthy(pcfg.cond_id) /\ Truthy(pcfg.event_id)

\* the request of this iteration is sent and answered by a
Requested(a) ==
    /\ ppc = "loop" /\ ~BadArgs
    /\ a \in PageAnswers
    /\ preqs' = Append(preqs, PageParams(pcfg, pcursor, poffset))
    /\ presps' = Append(presps, a)

\* the loop is left by break: return rows
Returned(rows) == ppc' = "returned" /\ pret' = rows

\* raise ValueError: cond_id and event_id are both given
PageBadArgs ==
    /\ ppc = "loop" /\ BadArgs
    /\ ppc' = "raised"
    /\ UNCHANGED <<pcfg, prows, pcursor, poffset, ppages, preqs, presps, pret>>
    /\ UNCHANGED <<roleVars, aggVars, feeVars, actVars, normVars, winVars, filtVars>>

\* client.get raises, or the status is not 200 and raise_for_status raises
PageFail ==
    /\ \E a \in PageAnswers :
          /\ Requested(a)
          /\ a.kind \in {"http_error", "transport_error"}
    /\ ppc' = "raised"
    /\ UNCHANGED <<pcfg, prows, pcursor, poffset, ppages, pret>>
    /\ UNCHANGED <<roleVars, aggVars, feeVars, actVars, normVars, winVars, filtVars>>

\* the answer is a dict with results and a next cursor
PageDict ==
    /\ \E a \in PageAnswers :
          /\ Requested(a)
          /\ a.kind = "dict"
          /\ IF BatchSize(a) = 0
             THEN /\ Returned(prows)
                  /\ UNCHANGED <<prows, pcursor, ppages>>
             ELSE LET rows == prows \o PageRows(Len(preqs) + 1, BatchSize(a))
                  IN  /\ prows' = rows
                      /\ pcursor' = NextCursor(a)
                      /\ ppages' = ppages + 1
                      /\ IF ~Truthy(NextCursor(a)) \/ PagesReached(ppages + 1, pcfg.max_pages)
                         THEN Returned(rows)
                         ELSE UNCHANGED <<ppc, pret>>
    /\ UNCHANGED <<pcfg, poffset>>
    /\ UNCHANGED <<roleVars, aggVars, feeVars, actVars, normVars, winVars, filtVars>>

\* the answer is a plain list
PageList ==
    /\ \E a \in PageAnswers :
          /\ Requested(a)
          /\ a.kind = "list"
          /\ IF a.size = 0
             THEN /\ Returned(prows)
                  /\ UNCHANGED <<prows, ppages, poffset>>
             ELSE LET rows == prows \o PageRows(Len(preqs) + 1, a.size)
                  IN  /\ prows' = rows
                      /\ ppages' = ppages + 1
                      /\ IF a.size < pcfg.limit
                         THEN Returned(rows) /\ UNCHANGED poffset
                         ELSE /\ poffset' = NextOffset(poffset, pcfg.limit)
                              /\ IF PagesReached(ppages + 1, pcfg.max_pages)
                                 THEN Returned(rows)
                                 ELSE UNCHANGED <<ppc, pret>>
    /\ UNCHANGED <<pcfg, pcursor>>
    /\ UNCHANGED <<roleVars, aggVars, feeVars, actVars, normVars, winVars, filtVars>>

\* the answer is neither a dict nor a list
PageOther ==
    /\ \E a \in PageAnswers :
          /\ Requested(a)
          /\ a.kind = "other"
    /\ Returned(prows)
    /\ UNCHANGED <<pcfg, prows, pcursor, poffset, ppages>>
    /\ UNCHANGED <<roleVars, aggVars, feeVars, actVars, normVars, winVars, filtVars>>

----------------------------------------------------------------------------
(* fetch_merged_activity *)

Min(a, b) == IF a <= b THEN a ELSE b

\* JSON null
NoData ==
    [kind |-> "null", size |-> 0, results |-> -1, data |-> -1,
     nextCursor |-> None, next |-> None, cursor |-> None, status |-> 200]

\* min(limit, 500)
ActLimit(cfg) == Min(cfg.limit, 500)

\* params of one request
ActParams(cfg, offset) ==
    [user |-> cfg.user, type |-> S("MERGE"), limit |-> N(ActLimit(cfg)),
     offset |-> N(offset)]

ActConfigs ==
    { [user |-> S("0xW"), limit |-> l, max_pages |-> m] :
        l \in {PageLimit, 501}, m \in 1 .. MaxPagesBound }

ActAnswers ==
    { ListPage(sz) : sz \in 0 .. PageLimit + 1 }
      \cup { NoData, HttpError(500), TransportError }

ActIdle ==
    /\ mcfg = [user |-> None, limit |-> 0, max_pages |-> 0]
    /\ mout = <<>>
    /\ moffset = 0
    /\ miter = 0
    /\ mreqs = <<>>
    /\ mresps = <<>>
    /\ mret = <<>>
    /\ mpc = "idle"

ActInit ==
    /\ mcfg \in ActConfigs
    /\ mout = <<>>
    /\ moffset = 0
    /\ miter = 0
    /\ mreqs = <<>>
    /\ mresps = <<>>
    /\ mret = <<>>
    /\ mpc = "loop"

\* the request of this iteration is sent and answered by a
ActRequested(a) ==
    /\ mpc = "loop" /\ miter < mcfg.max_pages
    /\ a \in ActAnswers
    /\ mreqs' = Append(mreqs, ActParams(mcfg, moffset))
    /\ mresps' = Append(mresps, a)
    /\ miter' = miter + 1

\* get_json raises: transport error, or raise_for_status
ActFail ==
    /\ \E a \in ActAnswers :
          /\ ActRequested(a)
          /\ a.kind \in {"http_error", "transport_error"}
    /\ mpc' = "raised"
    /\ UNCHANGED <<mcfg, mout, moffset, mret>>
    /\ UNCHANGED <<roleVars, aggVars, feeVars, pageVars, normVars, winVars, filtVars>>

\* if not data: break
ActEmpty ==
    /\ \E a \in ActAnswers :
          /\ ActRequested(a)
          /\ a.kind = "null" \/ (a.kind = "list" /\ a.size = 0)
    /\ mpc' = "returned"
    /\ mret' = mout
    /\ UNCHANGED <<mcfg, mout, moffset>>
    /\ UNCHANGED <<roleVars, aggVars, feeVars, pageVars, normVars, winVars, filtVars>>

\* a page of rows; the loop ends on a short page or after max_pages rounds
ActPage ==
    /\ \E a \in ActAnswers :
          /\ ActRequested(a)
          /\ a.kind = "list" /\ a.size > 0
          /\ LET rows == mout \o PageRows(Len(mreqs) + 1, a.size)
             IN  /\ mout' = rows
                 /\ moffset' = moffset + a.size
                 /\ IF a.size < ActLimit(mcfg) \/ miter + 1 >= mcfg.max_pages
                    THEN mpc' = "returned" /\ mret' = rows
                    ELSE UNCHANGED <<mpc, mret>>
    /\ UNCHANGED mcfg
    /\ UNCHANGED <<roleVars, aggVars, feeVars, pageVars, normVars, winVars, filtVars>>

----------------------------------------------------------------------------
(* day_windows_local_to_utc *)

\* a date is the number of its day since 1970-01-01; a local datetime is the
\* number of seconds of its wall clock since 1970-01-01 00:00

\* parse_date_local: midnight of the day on the wall clock
parse_date_local(d) == d * 86400

\* a zone without daylight saving time
UtcOffsetNoDst(w) == 3600

\* utcoffset() of Europe/Amsterdam in 2025: summer time runs from 03:00 on
\* 2025-03-30 (day 20177) to 03:00 on 2025-10-26 (day 20387)
UtcOffset(w) ==
    IF w >= 20177 * 86400 + 3 * 3600 /\ w < 20387 * 86400 + 3 * 3600
    THEN 7200 ELSE 3600

\* int(x.astimezone(timezone.utc).timestamp())
LocalToUtc(w) == w - UtcOffset(w)

\* parse_date_local(to_date) + timedelta(days=1)
EndLocalExcl(to) == parse_date_local(to) + 86400

MaxSpan == 4

\* the days around the two changes of the clock, and one in winter
WinDays == (20175 .. 20179) \cup (20385 .. 20389) \cup {20100}

WinIdle ==
    /\ wfrom = 0 /\ wto = 0 /\ wcur = 0
    /\ wout = <<>>
    /\ wpc = "idle"

WinInit ==
    /\ wfrom \in WinDays
    /\ wto \in (wfrom - 1) .. (wfrom + MaxSpan - 1)
    /\ wcur = parse_date_local(wfrom)
    /\ wout = <<>>
    /\ wpc = "loop"

\* one round of the while loop
WinStep ==
    /\ wpc = "loop" /\ wcur < EndLocalExcl(wto)
    /\ LET nxt == Min(wcur + 86400, EndLocalExcl(wto))
       IN  /\ wout' = Append(wout, <<LocalToUtc(wcur), LocalToUtc(nxt)>>)
           /\ wcur' = nxt
    /\ UNCHANGED <<wfrom, wto, wpc>>
    /\ UNCHANGED <<roleVars, aggVars, feeVars, pageVars, actVars, normVars, filtVars>>

WinReturn ==
    /\ wpc = "loop" /\ ~(wcur < EndLocalExcl(wto))
    /\ wpc' = "returned"
    /\ UNCHANGED <<wfrom, wto, wcur, wout>>
    /\ UNCHANGED <<roleVars, aggVars, feeVars, pageVars, actVars, normVars, filtVars>>

----------------------------------------------------------------------------
(* filter_trades_by_windows, in fetch_wallet_data.py and in fetch_trade_data.py *)

\* start_ts <= ts < end_ts; a timestamp of 2 * 10**10 or more lies after
\* every window
InWindow(ts, win) == ts.k = "num" /\ win[1] <= ts.n /\ ts.n < win[2]

\* an inner loop without break: the trade is appended for every window
\* that holds it
RECURSIVE WindowLoopNoBreak(_, _, _)
WindowLoopNoBreak(t, ts, windows) ==
    IF windows = <<>> THEN <<>>
    ELSE (IF InWindow(ts, Head(windows)) THEN <<t>> ELSE <<>>)
         \o WindowLoopNoBreak(t, ts, Tail(windows))

\* fetch_wallet_data.py: the loop over the windows, what it appends to out
RECURSIVE WindowLoop(_, _, _)
WindowLoop(t, ts, windows) ==
    IF windows = <<>> THEN <<>>
    ELSE IF InWindow(ts, Head(windows)) THEN <<t>>
    ELSE WindowLoop(t, ts, Tail(windows))

\* fetch_wallet_data.py: the loop over the trades
RECURSIVE filter_trades_by_windows(_, _)
filter_trades_by_windows(rows, windows) ==
    IF rows = <<>> THEN <<>>
    ELSE (IF extract_ts_seconds(Head(rows)) = None THEN <<>>
          ELSE WindowLoop(Head(rows), extract_ts_seconds(Head(rows)), windows))
         \o filter_trades_by_windows(Tail(rows), windows)

\* fetch_trade_data.py, without the division by 1000
trade_extract_ts_seconds_unscaled(t) ==
    LET ts == Or(Or(t["timestamp"], t["ts"]), t["time"])
    IN  CASE ts.k = "none" -> None
          [] ts.k = "num"  -> ts
          [] ts.k = "big"  -> ts
          [] OTHER -> IF IsDecimal(ts.s) THEN N(DecimalOf(ts.s)) ELSE None

\* fetch_trade_data.py
trade_extract_ts_seconds(t) ==
    LET ts == Or(Or(t["timestamp"], t["ts"]), t["time"])
    IN  CASE ts.k = "none" -> None
          [] ts.k = "num"  -> ts
          [] ts.k = "big"  ->
                IF ts.n > MsThresholdThousands
                   \/ (ts.n = MsThresholdThousands /\ ts.lo > 0)
                THEN N(ts.n) ELSE ts
          [] OTHER -> IF IsDecimal(ts.s) THEN N(DecimalOf(ts.s)) ELSE None

\* fetch_trade_data.py: the loop over the windows
RECURSIVE trade_WindowLoop(_, _, _)
trade_WindowLoop(t, ts, windows) ==
    IF windows = <<>> THEN <<>>
    ELSE IF InWindow(ts, Head(windows)) THEN <<t>>
    ELSE trade_WindowLoop(t, ts, Tail(windows))

\* fetch_trade_data.py: the loop over the trades
RECURSIVE trade_filter_trades_by_windows(_, _)
trade_filter_trades_by_windows(rows, windows) ==
    IF rows = <<>> THEN <<>>
    ELSE (IF trade_extract_ts_seconds(Head(rows)) = None THEN <<>>
          ELSE trade_WindowLoop(Head(rows), trade_extract_ts_seconds(Head(rows)), windows))
         \o trade_filter_trades_by_windows(Tail(rows), windows)

MaxFiltTrades == 2

\* records with absent, zero, textual, unparseable and millisecond timestamps
FiltPool ==
    { Raw([size |-> N(1)]),
      Raw([timestamp |-> N(0), ts |-> N(5)]),
      Raw([timestamp |-> S("abc")]),
      Raw([timestamp |-> S("5")]),
      Raw([time |-> N(7)]),
      Raw([timestamp |-> S(""), time |-> S("9")]),
      Raw([timestamp |-> Big(30000000, 7)]),
      Raw([ts |-> Big(20000000, 0)]) }

FiltWindows ==
    { <<>>, << <<0, 6>> >>, << <<0, 6>>, <<5, 10>> >>, << <<0, 5>> >>,
      << <<0, 5>>, <<5, 7>> >>, << <<29999999, 30000001>>, <<7, 8>> >> }

\* the timestamps extracted from the records, and the records kept
FiltResult(ts, kept) == [ts |-> ts, kept |-> kept]

FiltIdle ==
    /\ ttrades = <<>> /\ twindows = <<>>
    /\ tkept_wallet = FiltResult(<<>>, <<>>) /\ tkept_trade = FiltResult(<<>>, <<>>)
    /\ tpc = "idle"

FiltInit ==
    /\ ttrades \in SeqsUpTo(FiltPool, MaxFiltTrades)
    /\ twindows \in FiltWindows
    /\ tkept_wallet = FiltResult(<<>>, <<>>) /\ tkept_trade = FiltResult(<<>>, <<>>)
    /\ tpc = "call"

\* the call site of fetch_wallet_data.py
FiltWallet ==
    /\ tpc = "call"
    /\ tkept_wallet' =
          FiltResult([i \in 1 .. Len(ttrades) |-> extract_ts_seconds(ttrades[i])],
                     filter_trades_by_windows(ttrades, twindows))
    /\ tpc' = "wallet"
    /\ UNCHANGED <<ttrades, twindows, tkept_trade>>
    /\ UNCHANGED <<roleVars, aggVars, feeVars, pageVars, actVars, normVars, winVars>>

\* the call site of fetch_trade_data.py
FiltTrade ==
    /\ tpc = "wallet"
    /\ tkept_trade' =
          FiltResult([i \in 1 .. Len(ttrades) |-> trade_extract_ts_seconds(ttrades[i])],
                     trade_filter_trades_by_windows(ttrades, twindows))
    /\ tpc' = "both"
    /\ UNCHANGED <<ttrades, twindows, tkept_wallet>>
    /\ UNCHANGED <<roleVars, aggVars, feeVars, pageVars, actVars, normVars, winVars>>

----------------------------------------------------------------------------
(* normalize_trade_record on its own *)

\* raw records over the market and outcome keys, with null, falsy and truthy
\* values
NormRaws ==
    { Raw([conditionId |-> c, market |-> m, eventId |-> e,
           outcomeToken |-> ot, outcomeIndex |-> oi, outcome |-> o,
           price |-> p, size |-> N(5)]) :
        c \in {None, S(""), S("M1")}, m \in {None, S("M2")},
        e \in {None, N(0), N(7)}, ot \in {None, S(""), S("T")},
        oi \in {None, N(0), N(1)}, o \in {None, S("Yes")},
        p \in {None, S("abc")} }

NormIdle ==
    /\ nraw = Raw(<<>>)
    /\ nrec = None
    /\ npc = "idle"

NormInit ==
    /\ nraw \in NormRaws
    /\ nrec = None
    /\ npc = "call"

\* float(price) or float(size) raises
NormRaise ==
    /\ npc = "call" /\ NormalizeRaises(nraw)
    /\ npc' = "raised"
    /\ UNCHANGED <<nraw, nrec>>
    /\ UNCHANGED <<roleVars, aggVars, feeVars, pageVars, actVars, winVars, filtVars>>

NormReturn ==
    /\ npc = "call" /\ ~NormalizeRaises(nraw)
    /\ nrec' = normalize_trade_record(nraw)
    /\ npc' = "returned"
    /\ UNCHANGED nraw
    /\ UNCHANGED <<roleVars, aggVars, feeVars, pageVars, actVars, winVars, filtVars>>

----------------------------------------------------------------------------
(* Specifications *)

RoleNext == RoleNormalize \/ RoleResolve
AggNext  == AggRaise \/ AggSkip \/ AggFold \/ AggFinalize \/ AggPrices \/ AggMark
FeeNext  == FeeNoHash \/ FeeCached \/ FeeCompute \/ FeeDone
NormNext == NormRaise \/ NormReturn
WinNext  == WinStep \/ WinReturn
FiltNext == FiltWallet \/ FiltTrade
FetchNext == PageBadArgs \/ PageFail \/ PageDict \/ PageList \/ PageOther
                \/ ActFail \/ ActEmpty \/ ActPage

\* one run of each program on its own; the others stay idle
FetchIdle == PageIdle /\ ActIdle
TimeIdle  == WinIdle /\ FiltIdle

InitRole == RoleInit /\ AggIdle /\ FeeIdle /\ FetchIdle /\ NormIdle /\ TimeIdle
InitAgg  == AggInit /\ RoleIdle /\ FeeIdle /\ FetchIdle /\ NormIdle /\ TimeIdle
InitFee  == FeeInit /\ RoleIdle /\ AggIdle /\ FetchIdle /\ NormIdle /\ TimeIdle
\* one of the two fetchers runs
InitFetch ==
    /\ (PageInit /\ ActIdle) \/ (PageIdle /\ ActInit)
    /\ RoleIdle /\ AggIdle /\ FeeIdle /\ NormIdle /\ TimeIdle
InitWin  == WinInit /\ RoleIdle /\ AggIdle /\ FeeIdle /\ FetchIdle /\ NormIdle /\ FiltIdle
InitFilt == FiltInit /\ RoleIdle /\ AggIdle /\ FeeIdle /\ FetchIdle /\ NormIdle /\ WinIdle
InitNorm == NormInit /\ RoleIdle /\ AggIdle /\ FeeIdle /\ FetchIdle /\ TimeIdle

SpecRole == InitRole /\ [][RoleNext]_vars
SpecAgg  == InitAgg /\ [][AggNext]_vars
SpecFee  == InitFee /\ [][FeeNext]_vars
SpecFetch == InitFetch /\ [][FetchNext]_vars
SpecNorm == InitNorm /\ [][NormNext]_vars
SpecWin  == InitWin /\ [][WinNext]_vars
SpecFilt == InitFilt /\ [][FiltNext]_vars

----------------------------------------------------------------------------
(* Properties of signed_quantity_for_wallet, checked under SpecRole *)

RoleWl == S(Lower(rwallet))

\* C1: a record with a non-zero size and a user is settled by the proxy rule
\* alone: +size for the user on buy/yes, -size for the user on sell/no, and
\* 0.0 in every other case, whatever buyer, seller, maker and taker hold.
C1_ProxyPrecedence ==
    (rpc = "resolved" /\ Truthy(rn.size) /\ rn.user # None) =>
        rres = IF RoleWl = rn.user /\ rn.side \in {S("buy"), S("yes")} THEN rn.size.n
               ELSE IF RoleWl = rn.user /\ rn.side \in {S("sell"), S("no")} THEN 0 - rn.size.n
               ELSE 0

\* the role precedence scenario: user 0xA sells, and is also the taker
C1_Witness ==
    /\ rpc = "resolved"
    /\ rwallet = "0xA" /\ rn.user = S("0xa") /\ rn.side = S("sell")
    /\ rn.maker = S("0xb") /\ rn.taker = S("0xa") /\ rn.buyer = S("0xa")
    /\ rres = -5

\* C2: without a user and with a buyer or a seller, the result is +size for
\* the buyer, -size for the seller and 0.0 for anyone else; maker, taker and
\* side are not consulted.
C2_BuyerSellerFinal ==
    (rpc = "resolved" /\ Truthy(rn.size) /\ rn.user = None
        /\ (rn.buyer # None \/ rn.seller # None)) =>
        rres = IF RoleWl = rn.buyer THEN rn.size.n
               ELSE IF RoleWl = rn.seller THEN 0 - rn.size.n
               ELSE 0

----------------------------------------------------------------------------
(* Properties of aggregate_delta_for_wallet, checked under SpecAgg *)

NormAt(i) == normalize_trade_record(trades[i])
DeltaAt(i) == signed_quantity_for_wallet(NormAt(i), wallet)
PairAt(i) == <<Str(NormAt(i).market_id), Str(NormAt(i).outcome_id)>>
IncludableAt(i) == Truthy(NormAt(i).market_id) /\ Truthy(NormAt(i).outcome_id)
ContributesAt(i) == IncludableAt(i) /\ DeltaAt(i) # 0
PairOfRow(rec) == <<rec.market_id, rec.outcome_id>>

\* the sum of the deltas of the includable records 1..k of a pair
RECURSIVE SumDeltas(_, _)
SumDeltas(k, pair) ==
    IF k = 0 THEN 0
    ELSE SumDeltas(k - 1, pair)
         + (IF IncludableAt(k) /\ PairAt(k) = pair THEN DeltaAt(k) ELSE 0)

\* the sum of the prices of the contributing records 1..k of a pair
RECURSIVE SumPrices(_, _)
SumPrices(k, pair) ==
    IF k = 0 THEN 0
    ELSE SumPrices(k - 1, pair)
         + (IF ContributesAt(k) /\ PairAt(k) = pair /\ NormAt(k).price # None
            THEN NormAt(k).price.n ELSE 0)

ContributorsOf(pair) == { i \in 1 .. Len(trades) : ContributesAt(i) /\ PairAt(i) = pair }

\* C3: every bucket's net_shares is the sum of the signed deltas of the
\* includable records of its (market_id, outcome_id), during the fold and in
\* the result; buy 10 @0.4 then sell 4 @0.5 on M1/O1 gives one bucket with
\* net_shares 6, fills 2 and avg_fill_price 0.45.
C3_NetShares ==
    /\ apc = "fold" =>
          \A key \in DOMAIN bucket : bucket[key].net_shares = SumDeltas(idx - 1, key)
    /\ apc = "done" =>
          \A j \in 1 .. Len(out) :
              out[j].net_shares = SumDeltas(Len(trades), PairOfRow(out[j]))
    /\ (apc = "done" /\ trades = <<T1, T2>> /\ wallet = "0xW") =>
          /\ Len(out) = 1
          /\ PairOfRow(out[1]) = <<"M1", "O1">>
          /\ out[1].net_shares = 6
          /\ out[1].fills = 2
          /\ out[1].avg_fill_price.num = 45 * out[1].avg_fill_price.den

C3_Witness ==
    /\ apc = "done" /\ trades = <<T1, T2>> /\ wallet = "0xW"
    /\ Len(out) = 1 /\ out[1].net_shares = 6

\* C4: in the result, fills is the number of records that contributed a
\* non-zero delta to the bucket and is at least 1, the divisor is not zero,
\* and avg_fill_price x fills is the sum of their prices (a missing price
\* counting as 0).
C4_Average ==
    apc = "done" =>
        \A j \in 1 .. Len(out) :
            /\ out[j].fills = Cardinality(ContributorsOf(PairOfRow(out[j])))
            /\ out[j].fills >= 1
            /\ out[j].avg_fill_price.den # 0
            /\ out[j].avg_fill_price.num * out[j].fills
                 = SumPrices(Len(trades), PairOfRow(out[j])) * out[j].avg_fill_price.den

\* a bucket of two fills, one of them without a price
C4_Witness ==
    /\ apc = "done"
    /\ \E j \in 1 .. Len(out) :
          /\ out[j].fills = 2
          /\ out[j].avg_fill_price = Frac(40, 2)
          /\ \E i \in ContributorsOf(PairOfRow(out[j])) : NormAt(i).price = None

\* C5: folding a record whose signed delta is 0.0 leaves the bucket map as it
\* was: no bucket is created and none changes.
C5_ZeroDelta ==
    [][(apc = "fold" /\ idx <= Len(trades) /\ idx' = idx + 1 /\ DeltaAt(idx) = 0)
         => (bucket' = bucket /\ order' = order)]_vars

\* a zero-delta record of an existing bucket's key has just been passed
C5_Witness ==
    /\ apc = "fold" /\ idx >= 2
    /\ IncludableAt(idx - 1) /\ DeltaAt(idx - 1) = 0
    /\ PairAt(idx - 1) \in DOMAIN bucket

\* C6: the result holds exactly one bucket for each (market_id, outcome_id)
\* of a contributing record, and no other bucket.
C6_Uniqueness ==
    apc = "done" =>
        LET pairs == { PairAt(i) : i \in { k \in 1 .. Len(trades) : ContributesAt(k) } }
        IN  /\ { PairOfRow(out[j]) : j \in 1 .. Len(out) } = pairs
            /\ Len(out) = Cardinality(pairs)

\* two outcomes of one market, one of them traded twice
C6_Witness ==
    /\ apc = "done" /\ Len(trades) = 3 /\ Len(out) = 2
    /\ out[1].market_id = out[2].market_id
    /\ out[1].fills = 2

----------------------------------------------------------------------------
(* Properties of the fee pipeline, checked under SpecFee *)

ReceiptCallsOf(h) ==
    { i \in 1 .. Len(calls) : calls[i].fn = "get_tx_receipt" /\ calls[i].txhash = h }
TxCallsOf(h) ==
    { i \in 1 .. Len(calls) : calls[i].fn = "get_tx_data" /\ calls[i].txhash = h }

\* what the explorer answered for a hash (no result when it was not asked)
ReceiptAnswerOf(h) == calls[CHOOSE i \in ReceiptCallsOf(h) : TRUE].answer
TxAnswerOf(h) ==
    IF TxCallsOf(h) = {} THEN NoResult ELSE calls[CHOOSE i \in TxCallsOf(h) : TRUE].answer

RaisedFor(h) ==
    \E i \in 1 .. Len(calls) : calls[i].txhash = h /\ calls[i].answer.k = "raise"

\* the hashes resolved by compute_fee without an exception
Computed == { h \in DOMAIN tx_cache : ~RaisedFor(h) }

\* C7: the receipt lookup is sent at most once per transaction hash, and all
\* rows sharing a hash carry the same feeMATIC and the same note, also when
\* the resolution ended in an error.
C7_Memoized ==
    /\ \A i \in 1 .. Len(calls) : Cardinality(ReceiptCallsOf(calls[i].txhash)) <= 1
    /\ \A i, j \in 1 .. Len(enriched) :
          (Truthy(TxOf(merges[i])) /\ TxOf(merges[i]) = TxOf(merges[j])) =>
              /\ enriched[i].feeMATIC = enriched[j].feeMATIC
              /\ enriched[i].fee_note = enriched[j].fee_note

\* two rows of one hash whose only resolution failed
C7_Witness ==
    /\ Len(enriched) >= 2
    /\ Truthy(TxOf(merges[1])) /\ TxOf(merges[1]) = TxOf(merges[2])
    /\ merges[1] # merges[2]
    /\ enriched[2].fee_note = "error:timeout"
    /\ Cardinality(ReceiptCallsOf(TxOf(merges[1]))) = 1

\* C8: with a receipt whose effective gas price decodes to null, a gas price
\* that decodes to an integer (0 included) is the price used and the note is
\* fallback_gasPrice; otherwise the note is no_price_found and no price is
\* used; a record noted no_price_found carries no computed fee.
C8_FallbackStep ==
    \A h \in Computed :
        LET r == ReceiptAnswerOf(h)
            t == TxAnswerOf(h)
            gp == IF t.k = "dict" THEN hex_to_int(t.gasPrice) ELSE None
            fee == tx_cache[h]
        IN  /\ (r.k = "dict" /\ hex_to_int(r.effectiveGasPrice) = None) =>
                  IF gp # None
                  THEN fee.note = "fallback_gasPrice" /\ fee.gasPrice = gp
                  ELSE fee.note = "no_price_found" /\ fee.gasPrice = None
            /\ fee.note = "no_price_found" => fee.feeWei = None /\ fee.feeMATIC = None

\* C9: a lookup that raises does not end the run: the row's note is
\* error:<message>, its feeMATIC, feeUSDC and netUSDC_after_fee are null, and
\* every row before and after it is emitted.
C9_ErrorsRecorded ==
    /\ \A i \in 1 .. Len(enriched) :
          RaisedFor(TxOf(merges[i])) =>
              /\ \E c \in 1 .. Len(calls) :
                    /\ calls[c].txhash = TxOf(merges[i])
                    /\ calls[c].answer.k = "raise"
                    /\ enriched[i].fee_note = "error:" \o calls[c].answer.msg
              /\ enriched[i].feeMATIC = None
              /\ enriched[i].feeUSDC = None
              /\ enriched[i].netUSDC_after_fee = None
    /\ fpc \in {"loop", "done"}
    /\ Len(enriched) = fi - 1
    /\ (fpc = "loop" /\ fi <= Len(merges)) => ENABLED FeeNext
    /\ fpc = "done" => Len(enriched) = Len(merges)

\* a failed row followed by a row with a fee, in a finished run
C9_Witness ==
    /\ fpc = "done"
    /\ \E i, j \in 1 .. Len(enriched) :
          /\ i < j
          /\ enriched[i].fee_note = "error:reset"
          /\ enriched[j].feeMATIC # None

\* C10: compute_fee gives a feeWei exactly when gas_used and price_used are
\* both non-null, and then feeWei = gas_used x price_used; otherwise feeWei
\* and feeMATIC are null and the note of the earlier steps is kept.
C10_FeeComputation ==
    \A h \in Computed :
        LET r == ReceiptAnswerOf(h)
            t == TxAnswerOf(h)
            fee == tx_cache[h]
            gas_used == IF r.k = "dict" THEN hex_to_int(r.gasUsed) ELSE None
            eff == IF r.k = "dict" THEN hex_to_int(r.effectiveGasPrice) ELSE None
            price_used == IF eff # None THEN eff
                          ELSE IF r.k = "dict" /\ t.k = "dict" THEN hex_to_int(t.gasPrice)
                          ELSE None
        IN  /\ fee.feeWei # None <=> (gas_used # None /\ price_used # None)
            /\ fee.feeWei # None =>
                  /\ fee.feeWei = N(gas_used.n * price_used.n)
                  /\ fee.feeMATIC = Matic(gas_used.n * price_used.n)
            /\ fee.feeWei = None =>
                  /\ fee.feeMATIC = None
                  /\ fee.note = IF r.k = "dict" THEN NoteOf(r, t) ELSE "no_receipt"

\* one hash with a fee of 5 x 5 wei, one whose gasUsed is malformed
C10_Witness ==
    \E h1, h2 \in Computed :
        /\ tx_cache[h1].feeWei = N(25) /\ tx_cache[h1].note = "fallback_gasPrice"
        /\ tx_cache[h2].feeWei = None /\ tx_cache[h2].gasUsed = None
        /\ tx_cache[h2].note = "fallback_gasPrice"

----------------------------------------------------------------------------
(* Properties of the fetchers, checked under SpecFetch *)

Failures == {"http_error", "transport_error"}
LastOf(q) == q[Len(q)]

\* C11: when a page request fails after at least one page was fetched, the
\* loop stops and the rows of the pages fetched so far are returned.
C11_PartialResults ==
    /\ (ppages >= 1 /\ presps # <<>> /\ LastOf(presps).kind \in Failures) =>
          (ppc = "returned" /\ pret = prows)
    /\ (mout # <<>> /\ mresps # <<>> /\ LastOf(mresps).kind \in Failures) =>
          (mpc = "returned" /\ mret = mout)

\* an answer that is an empty page, or a dict without a next cursor
EndsPaging(a) ==
    \/ a.kind = "list" /\ a.size = 0
    \/ a.kind = "dict" /\ BatchSize(a) = 0
    \/ a.kind = "dict" /\ ~Truthy(NextCursor(a))
    \/ a.kind = "null"

C20_RoleFilter ==
    \A i \in 1 .. Len(preqs) :
        LET q == preqs[i]
        IN  /\ ~(q.takerOnly = True /\ q.makerOnly = True)
            /\ pcfg.role = "taker" => (q.takerOnly = True /\ q.makerOnly = Absent)
            /\ pcfg.role = "maker" => (q.takerOnly = False /\ q.makerOnly = True)
            /\ pcfg.role \notin {"taker", "maker"} =>
                  (q.takerOnly = False /\ q.makerOnly = Absent)

\* a second request of a taker run
C20_Witness ==
    /\ pcfg.role = "taker" /\ Len(preqs) = 2
    /\ preqs[2].takerOnly = True /\ preqs[2].makerOnly = Absent

----------------------------------------------------------------------------
(* Properties of normalize_trade_record, checked under SpecNorm *)

MarketKeys  == <<"conditionId", "market", "marketId", "market_id", "eventId">>
OutcomeKeys == <<"outcomeToken", "outcomeId", "outcome_id", "outcomeIndex">>

RECURSIVE FirstNonNull(_, _)
FirstNonNull(t, keys) ==
    IF keys = <<>> THEN None
    ELSE IF t[Head(keys)] # None THEN t[Head(keys)]
    ELSE FirstNonNull(t, Tail(keys))

\* C13: market_id is the value of the first non-null key among conditionId,
\* market, marketId, market_id, eventId, and outcome_id the first non-null
\* among outcomeToken, outcomeId, outcome_id, outcomeIndex (a falsy value such
\* as 0 or "" counts as a value), the upper-cased outcome label being used
\* only when all of those are null.
C13_FirstNonNull ==
    npc = "returned" =>
        /\ nrec.market_id = FirstNonNull(nraw, MarketKeys)
        /\ nrec.outcome_id =
              IF FirstNonNull(nraw, OutcomeKeys) # None
              THEN FirstNonNull(nraw, OutcomeKeys)
              ELSE IF nrec.outcome_label.k = "str"
                   THEN S(Upper(nrec.outcome_label.s)) ELSE None

----------------------------------------------------------------------------
(* Further properties of aggregate_delta_for_wallet, checked under SpecAgg *)

\* C14: a trade sequence with a record whose price, size or timestamp is an
\* unparseable string never makes the aggregation raise: the call always
\* runs to its result.
C14_NeverAborts == apc # "raised"

\* the normalized record has no market_id or no outcome_id
MissingIdsAt(i) ==
    \/ NormAt(i).market_id \in {None, S("")}
    \/ NormAt(i).outcome_id \in {None, S("")}

\* C15: a record whose normalized market_id or outcome_id is missing creates
\* no bucket and changes none, and no row of the result has a missing or
\* empty market_id or outcome_id.
C15_MissingIdsExcluded ==
    /\ [][(apc = "fold" /\ idx <= Len(trades) /\ idx' = idx + 1 /\ MissingIdsAt(idx))
            => (bucket' = bucket /\ order' = order)]_vars
    /\ [](\A key \in DOMAIN bucket :
              /\ bucket[key].market_id \notin {"", "None"}
              /\ bucket[key].outcome_id \notin {"", "None"})
    /\ [](apc = "done" =>
              \A j \in 1 .. Len(out) :
                  /\ out[j].market_id \notin {"", "None"}
                  /\ out[j].outcome_id \notin {"", "None"})

\* a record of the wallet with a non-zero delta and no market has been
\* passed, after a bucket was made, and the result is out
C15_Witness ==
    /\ apc = "done" /\ Len(out) >= 1
    /\ \E i \in 1 .. Len(trades) :
          /\ i >= 2
          /\ MissingIdsAt(i) /\ DeltaAt(i) # 0

----------------------------------------------------------------------------
(* The maker/taker rule, checked under SpecRole *)

\* no user, no buyer, no seller; a maker or a taker, and a side
MakerTakerCase ==
    /\ rpc = "resolved" /\ Truthy(rn.size)
    /\ rn.user = None /\ rn.buyer = None /\ rn.seller = None
    /\ (rn.maker # None \/ rn.taker # None) /\ rn.side # None

\* the statement read for each role on its own: the taker's sign for the
\* taker and the maker's sign for the maker
C17_EachRole ==
    MakerTakerCase =>
        /\ (rn.side \in BuySides /\ RoleWl = rn.taker) => rres = rn.size.n
        /\ (rn.side \in BuySides /\ RoleWl = rn.maker) => rres = 0 - rn.size.n
        /\ (rn.side \in SellSides /\ RoleWl = rn.taker) => rres = 0 - rn.size.n
        /\ (rn.side \in SellSides /\ RoleWl = rn.maker) => rres = rn.size.n
        /\ (RoleWl \notin {rn.maker, rn.taker}
              \/ rn.side \notin (BuySides \cup SellSides)) => rres = 0

\* C17: without user, buyer and seller, and with a maker or taker and a side,
\* the result is +size for the taker and -size for the maker on buy/yes,
\* -size for the taker and +size for the maker on sell/no, and 0.0 when the
\* wallet is neither or the side is not recognized; a wallet that is both
\* maker and taker gets the taker's sign.
C17_MakerTaker ==
    MakerTakerCase =>
        rres = IF rn.side \in BuySides /\ RoleWl = rn.taker THEN rn.size.n
               ELSE IF rn.side \in BuySides /\ RoleWl = rn.maker THEN 0 - rn.size.n
               ELSE IF rn.side \in SellSides /\ RoleWl = rn.taker THEN 0 - rn.size.n
               ELSE IF rn.side \in SellSides /\ RoleWl = rn.maker THEN rn.size.n
               ELSE 0

\* the wallet is maker and taker of a sell
C17_Witness ==
    /\ MakerTakerCase
    /\ rn.side = S("sell") /\ rn.maker = RoleWl /\ rn.taker = RoleWl
    /\ rres = -5

----------------------------------------------------------------------------
(* Properties of day_windows_local_to_utc, checked under SpecWin *)

\* the instant of local midnight of a day of 2025, from the calendar: the
\* clock is one hour ahead of UTC in winter, two from 2025-03-30 03:00 to
\* 2025-10-26 03:00
MidnightUtc(d) ==
    IF d >= 20178 /\ d <= 20387 THEN d * 86400 - 7200 ELSE d * 86400 - 3600

\* C16: for from_date <= to_date the result has exactly one interval per
\* local day from from_date to to_date, in ascending order, each with
\* start < end, consecutive ones contiguous; the first start is local
\* midnight of from_date and the last end local midnight after to_date.
C16_WindowCoverage ==
    (wpc = "returned" /\ wfrom <= wto) =>
        /\ Len(wout) = wto - wfrom + 1
        /\ \A i \in 1 .. Len(wout) :
              /\ wout[i][1] < wout[i][2]
              /\ wout[i][1] = MidnightUtc(wfrom + i - 1)
              /\ wout[i][2] = MidnightUtc(wfrom + i)
        /\ \A i \in 1 .. Len(wout) - 1 :
              /\ wout[i][2] = wout[i + 1][1]
              /\ wout[i][1] < wout[i + 1][1]
        /\ wout[1][1] = MidnightUtc(wfrom)
        /\ wout[Len(wout)][2] = MidnightUtc(wto + 1)

\* windows over the night the clock goes back: a day of 25 hours
C16_Witness ==
    /\ wpc = "returned" /\ wfrom < wto
    /\ \E i \in 1 .. Len(wout) : wout[i][2] - wout[i][1] = 90000

\* a single day
C16_WitnessOneDay ==
    /\ wpc = "returned" /\ wfrom = wto /\ Len(wout) = 1

----------------------------------------------------------------------------
(* The two copies of the time filter, checked under SpecFilt *)

\* C18: on every raw record extract_ts_seconds of fetch_wallet_data.py and of
\* fetch_trade_data.py give the same value, and on every trade list and
\* window list the two filter_trades_by_windows give the same list.
C18_SameFilter ==
    tpc = "both" =>
        /\ tkept_wallet.ts = tkept_trade.ts
        /\ tkept_wallet.kept = tkept_trade.kept

\* a millisecond timestamp was rescaled and kept, an unparseable one dropped
C18_Witness ==
    /\ tpc = "both" /\ Len(ttrades) = 2
    /\ ttrades[1]["timestamp"] = Big(30000000, 7)
    /\ tkept_trade.ts[1] = N(30000000)
    /\ ttrades[2]["timestamp"] = S("abc")
    /\ tkept_trade.ts[2] = None
    /\ tkept_trade.kept = <<ttrades[1]>>

----------------------------------------------------------------------------
(* Properties of mark_to_market, checked under SpecAgg *)

HasPrice(r) == r.market_id \in DOMAIN price_map /\ r.outcome_id \in DOMAIN price_map[r.market_id]

\* C19: mark_to_market returns one row per bucket in the same order with
\* the aggregate fields unchanged; with a price for the bucket's
\* (market_id, outcome_id), current_price is that price and mark_value is
\* net_shares x current_price, otherwise both are not-a-number; the call
\* always returns and leaves the input rows and the price map as they were.
C19_MarkToMarket ==
    /\ [](apc = "marked" =>
            /\ Len(marked) = Len(out)
            /\ \A i \in 1 .. Len(out) :
                  /\ \A fld \in DOMAIN out[i] : marked[i][fld] = out[i][fld]
                  /\ DOMAIN marked[i] = DOMAIN out[i] \cup {"current_price", "mark_value"}
                  /\ HasPrice(out[i]) =>
                        /\ marked[i].current_price = N(price_map[out[i].market_id][out[i].outcome_id])
                        /\ marked[i].mark_value =
                              N(out[i].net_shares * price_map[out[i].market_id][out[i].outcome_id])
                  /\ ~HasPrice(out[i]) =>
                        /\ marked[i].current_price = NaN
                        /\ marked[i].mark_value = NaN)
    /\ [][apc = "priced" => (apc' = "marked" /\ out' = out /\ price_map' = price_map)]_vars

\* net 6 on M1/O1 marked at 0.45, and a second position without a price
C19_Witness ==
    /\ apc = "marked" /\ Len(marked) = 2
    /\ marked[1].net_shares = 6 /\ marked[1].current_price = N(45)
    /\ marked[1].mark_value = N(270)
    /\ marked[2].current_price = NaN /\ marked[2].mark_value = NaN

----------------------------------------------------------------------------
(* The order of the lookups of compute_fee, checked under SpecFee *)

\* C21: for each hash the receipt lookup comes first; the transaction lookup
\* is sent if and only if the receipt is present and its effective gas price
\* decodes to null.  An absent receipt ends the resolution with note
\* no_receipt, every numeric field null and no second lookup; a present
\* effective gas price is the price used, with note effectiveGasPrice and no
\* second lookup.
C21_CallOrder ==
    /\ \A i \in 1 .. Len(calls) :
          calls[i].fn = "get_tx_data" =>
              /\ i > 1
              /\ calls[i - 1].fn = "get_tx_receipt"
              /\ calls[i - 1].txhash = calls[i].txhash
    /\ \A h \in DOMAIN tx_cache :
          LET r == ReceiptAnswerOf(h)
              eff == hex_to_int(r.effectiveGasPrice)
              gas == hex_to_int(r.gasUsed)
              fee == tx_cache[h]
          IN  /\ Cardinality(ReceiptCallsOf(h)) = 1
              /\ TxCallsOf(h) # {} <=> (r.k = "dict" /\ eff = None)
              /\ r.k = "none" =>
                    /\ fee = FeeRecord(None, None, None, None, None, "no_receipt")
                    /\ TxCallsOf(h) = {}
              /\ (r.k = "dict" /\ eff # None) =>
                    /\ fee.note = "effectiveGasPrice"
                    /\ fee.effectiveGasPrice = eff
                    /\ gas # None => (fee.feeWei = N(gas.n * eff.n) /\ fee.gasPrice = eff)
                    /\ TxCallsOf(h) = {}

\* one hash ended at an absent receipt, another went on to the transaction
\* lookup
C21_Witness ==
    \E h1, h2 \in DOMAIN tx_cache :
        /\ ReceiptAnswerOf(h1).k = "none" /\ tx_cache[h1].note = "no_receipt"
        /\ TxCallsOf(h2) # {} /\ tx_cache[h2].note = "fallback_gasPrice"
        /\ Len(calls) = 3

----------------------------------------------------------------------------
(* Further properties of the fetchers, checked under SpecFetch *)

\* the number of rows of an answered page
RowsIn(a) ==
    IF a.kind = "list" THEN a.size ELSE IF a.kind = "dict" THEN BatchSize(a) ELSE 0

RECURSIVE RowsBefore(_, _)
RowsBefore(resps, i) ==
    IF i <= 1 THEN 0 ELSE RowsBefore(resps, i - 1) + RowsIn(resps[i - 1])

\* C22: a page with fewer rows than the limit is the last one requested,
\* whether it is a plain list or a dict that supplies a next cursor.
C22_ShortPageEnds ==
    \A i \in 1 .. Len(presps) :
        (presps[i].kind \in {"list", "dict"} /\ RowsIn(presps[i]) < pcfg.limit) =>
            (Len(preqs) = i /\ ppc = "returned")

\* C23: every request carries exactly one of cursor and offset; the request
\* after a dict answer with a next cursor carries that cursor, and the request
\* after a plain list carries an offset, also when an earlier answer of the
\* run had supplied a cursor.
C23_CursorOrOffset ==
    \A i \in 1 .. Len(preqs) :
        /\ (preqs[i].cursor = Absent) # (preqs[i].offset = Absent)
        /\ (i > 1 /\ presps[i - 1].kind = "dict") =>
              preqs[i].cursor = NextCursor(presps[i - 1])
        /\ (i > 1 /\ presps[i - 1].kind = "list") =>
              (preqs[i].offset # Absent /\ preqs[i].cursor = Absent)

\* every earlier page held at most limit rows
WithinLimit(resps, i, limit) == \A j \in 1 .. i - 1 : RowsIn(resps[j]) <= limit

\* C27: when the server never returns more than limit rows, the offset sent
\* with a request equals the number of rows accumulated from the pages
\* before it, in get_trades_pages and in fetch_merged_activity.
C27_OffsetIsRowCount ==
    /\ \A i \in 1 .. Len(preqs) :
          (preqs[i].offset # Absent /\ WithinLimit(presps, i, pcfg.limit)) =>
              /\ preqs[i].offset = N(RowsBefore(presps, i))
              /\ ppc = "loop" => Len(prows) = RowsBefore(presps, Len(presps) + 1)
    /\ \A i \in 1 .. Len(mreqs) :
          WithinLimit(mresps, i, ActLimit(mcfg)) =>
              mreqs[i].offset = N(RowsBefore(mresps, i))

\* a third request in offset mode, after two full pages
C27_Witness ==
    /\ Len(preqs) = 3
    /\ presps[1].kind = "list" /\ presps[2].kind = "list"
    /\ preqs[3].offset = N(2 * pcfg.limit)
    /\ Len(prows) >= 2 * pcfg.limit

----------------------------------------------------------------------------
(* The window filter, checked under SpecFilt *)

\* start <= ts < end for some window
InSomeWindow(ts, windows) ==
    \E j \in 1 .. Len(windows) :
        ts.k = "num" /\ windows[j][1] <= ts.n /\ ts.n < windows[j][2]

\* the records 1..i of rows whose timestamp lies in some window, in order
RECURSIVE KeptUpTo(_, _, _, _)
KeptUpTo(rows, ts, windows, i) ==
    IF i = 0 THEN <<>>
    ELSE KeptUpTo(rows, ts, windows, i - 1)
         \o (IF ts[i] # None /\ InSomeWindow(ts[i], windows) THEN <<rows[i]>> ELSE <<>>)

\* C24: the result is the subsequence of the trades, in input order and each
\* at most once, whose timestamp satisfies start <= ts < end for some window;
\* a timestamp equal to a window's end is kept only when another window holds
\* it, and trades without a resolvable timestamp are dropped.
C24_WindowFilter ==
    /\ tpc \in {"wallet", "both"} =>
          tkept_wallet.kept = KeptUpTo(ttrades, tkept_wallet.ts, twindows, Len(ttrades))
    /\ tpc = "both" =>
          tkept_trade.kept = KeptUpTo(ttrades, tkept_trade.ts, twindows, Len(ttrades))

\* a trade held by two overlapping windows is kept once, one without a
\* timestamp is dropped
C24_Witness ==
    /\ tpc = "both" /\ Len(ttrades) = 2
    /\ twindows = << <<0, 6>>, <<5, 10>> >>
    /\ tkept_wallet.ts = <<N(5), None>>
    /\ tkept_wallet.kept = <<ttrades[1]>>

\* a timestamp equal to the end of the only window is dropped
C24_WitnessHalfOpen ==
    /\ tpc = "both" /\ Len(ttrades) = 1
    /\ twindows = << <<0, 5>> >>
    /\ tkept_wallet.ts = <<N(5)>>
    /\ tkept_wallet.kept = <<>>

----------------------------------------------------------------------------
(* The life of a bucket, checked under SpecAgg *)

\* C25: during the fold the set of bucket keys only grows; a key enters it
\* exactly when the first record with a non-zero delta for that key is
\* folded, and every bucket is in the result, also one whose net_shares came
\* back to zero.
C25_BucketLifecycle ==
    /\ [][(apc = "fold" /\ idx <= Len(trades) /\ idx' = idx + 1) =>
            /\ DOMAIN bucket \subseteq DOMAIN bucket'
            /\ DOMAIN bucket' \ DOMAIN bucket =
                  IF ContributesAt(idx) /\ PairAt(idx) \notin DOMAIN bucket
                  THEN {PairAt(idx)} ELSE {}]_vars
    /\ [][apc # "fold" => bucket' = bucket]_vars
    /\ [](apc \in {"done", "priced", "marked"} =>
            /\ { PairOfRow(out[j]) : j \in 1 .. Len(out) } = DOMAIN bucket
            /\ DOMAIN bucket =
                  { PairAt(i) : i \in { k \in 1 .. Len(trades) : ContributesAt(k) } })

\* a bucket that was bought and sold back to zero is in the result
C25_Witness ==
    /\ apc = "done" /\ Len(trades) >= 2
    /\ \E j \in 1 .. Len(out) : out[j].net_shares = 0 /\ out[j].fills = 2

----------------------------------------------------------------------------
(* Order independence of the aggregation, checked under SpecAgg *)

\* the trades in the order given by a permutation of their positions
Permuted(ts, p) == [i \in 1 .. Len(ts) |-> ts[p[i]]]

\* key, net_shares, fills and avg_fill_price of every row
Figures(rows) ==
    { [key |-> PairOfRow(rows[j]), net_shares |-> rows[j].net_shares,
       fills |-> rows[j].fills, avg_fill_price |-> rows[j].avg_fill_price] :
        j \in 1 .. Len(rows) }

\* C26: aggregating any permutation of the trades gives the same bucket keys
\* with the same net_shares, fills and avg_fill_price per key.
C26_OrderIndependent ==
    apc = "done" =>
        /\ out = aggregate_delta_for_wallet(trades, wallet)
        /\ \A p \in Permutations(1 .. Len(trades)) :
              /\ Len(aggregate_delta_for_wallet(Permuted(trades, p), wallet)) = Len(out)
              /\ Figures(aggregate_delta_for_wallet(Permuted(trades, p), wallet)) = Figures(out)

\* three trades of two buckets whose reversal gives the rows in another order
C26_Witness ==
    /\ apc = "done" /\ Len(trades) = 3 /\ Len(out) = 2
    /\ out[1].fills = 2
    /\ \E p \in Permutations(1 .. Len(trades)) :
          aggregate_delta_for_wallet(Permuted(trades, p), wallet)[1].fills = 1

----------------------------------------------------------------------------
(* The rows of the fee pipeline, checked under SpecFee *)

\* the note a row must carry
ExpectedNote(i) ==
    IF ~Truthy(TxOf(merges[i])) THEN "no_txhash" ELSE tx_cache[TxOf(merges[i])].note

\* one enriched row per row, in order, each with its note
OneRowEach ==
    /\ Len(enriched) = fi - 1
    /\ fpc = "done" => Len(enriched) = Len(merges)
    /\ \A i \in 1 .. Len(enriched) :
          /\ enriched[i].fee_note # ""
          /\ enriched[i].fee_note = ExpectedNote(i)

\* the statement as given: every field the activity row came with is unchanged
C28_AllFieldsKept ==
    /\ OneRowEach
    /\ \A i \in 1 .. Len(enriched) : enriched[i].row = merges[i]

\* the keys row.update writes
FeeKeys == {"feeMATIC", "feeUSDC", "netUSDC_after_fee", "maticPriceUSDC", "fee_note"}

\* C28: the pipeline emits one enriched row per activity row, in input order,
\* with every original field unchanged except a field named like one of the
\* fee fields it writes; every emitted row has a non-empty fee_note,
\* no_txhash for a row without a transaction hash and the note of the fee
\* record otherwise.
C28_RowsPreserved ==
    /\ OneRowEach
    /\ \A i \in 1 .. Len(enriched) :
          \A key \in RowKeys \ FeeKeys : enriched[i].row[key] = merges[i][key]

\* a finished run over a row without hash, a failed lookup and a priced row
C28_Witness ==
    /\ fpc = "done" /\ Len(enriched) = 3
    /\ \E i, j, k \in 1 .. 3 :
          /\ enriched[i].fee_note = "no_txhash" /\ enriched[i].row["title"] = S("merge")
          /\ enriched[j].fee_note = "error:timeout"
          /\ enriched[k].fee_note = "effectiveGasPrice" /\ enriched[k].feeMATIC # None

====
